---- MODULE Spec2Model ----
(***************************************************************************)
(* Job queue engine of the document ingestor                               *)
(* (src/backend/services/queue_service.py, JobQueueService) together with  *)
(* the two collaborators it drives: the Job Record table (DynamoDB) and    *)
(* the message broker (SQS).                                               *)
(*                                                                         *)
(* Every collaborator call of a handler is one atomic step; a handler that *)
(* reads a record and later writes it (complete_job, fail_job) is split at *)
(* those calls, so that calls of different processes interleave exactly    *)
(* where the code lets them.                                               *)
(***************************************************************************)
EXTENDS Integers, Sequences, FiniteSets, TLC

\* ------------------------------------------------------------------ bounds
MaxJobs == 2          \* job ids uuid4 may hand out: 1..MaxJobs
MaxTime == 2          \* the clock runs over 1..MaxTime
MaxSubmissions == 1   \* enqueue calls made by clients (retries make the rest)
MaxLeases == 2        \* messages the worker loops receive in one run
MaxApiLeases == 1     \* the same, where any process calls any operation
MaxSeconds == 8       \* the clock of the delay timers runs over 1..MaxSeconds
MaxMinutes == 12      \* the clock of the worker window runs over 1..MaxMinutes
MaxInputs == 2        \* process_job gets up to MaxInputs files, filenames, urls
MaxChunks == 2        \* a text is cut into up to MaxChunks chunks
MaxParagraphs == 2    \* a text to chunk has up to MaxParagraphs paragraphs
MaxSentences == 2     \* a paragraph has up to MaxSentences sentences
MaxUploads == 3       \* documents uploaded to the bucket in one run

\* ------------------------------------------------- enumerations, constants
\* JobStatus values the queue engine reads or writes
QUEUED == "queued"
PROCESSING == "processing"
COMPLETED == "completed"
FAILED == "failed"
CANCELLED == "cancelled"

\* JobPriority: LOW = 1, NORMAL = 2, HIGH = 3, URGENT = 4
LOW == 1
URGENT == 4
JobPriority == LOW..URGENT

QueueType == {"document_processing", "approval_workflow", "maintenance", "monitoring"}

\* QueueJob.max_retries default
DefaultMaxRetries == 3

\* queue_configs: the queue types that have a queue, and their redrive bound
ConfiguredQueues == {"document_processing", "approval_workflow", "maintenance"}
max_receive_count_Uniform(qt) == 3
max_receive_count(qt) == IF qt = "maintenance" THEN 2 ELSE 3

\* ------------------------------------------------------------- value space
None == 0             \* Python None in a numeric (timestamp) attribute
Absent == -1          \* numeric attribute missing from the stored item
NONE == "None"        \* Python None in a string attribute
ABSENT == "absent"    \* string attribute missing from the stored item

JobIds == 1..MaxJobs
Workers == {"w1", "w2"}          \* worker ids passed to dequeue_job
Procs == Workers \cup {"api"}    \* the processes that call the engine
\* payloads as the engine sees them: opaque, but a payload holding numbers
\* comes back from the table with Decimal values, which json.dumps rejects
Payloads == {"urls", "files_with_counts"}
\* what clients submit: an owning user and a payload
Submissions == {[user_id |-> "u1", payload |-> "urls"],
                [user_id |-> "u2", payload |-> "files_with_counts"]}
\* error strings workers report (str(e) of whatever the pipeline raised)
Errors == {"boom"}

NoHandle == [msg |-> 0, rc |-> 0]

\* boto3.client('sqs'): botocore checks the keyword arguments of a request
\* against the operation's input shape and raises ParamValidationError for a
\* name the shape does not have ("validating", its default); with parameter
\* validation switched off, or behind a stand-in client, the unknown name is
\* dropped and the request goes out ("lenient")
SqsClients == {"validating", "lenient"}

\* the item stored under a key that has no item
NoItem ==
  [job_id |-> 0, queue_type |-> ABSENT, status |-> ABSENT, priority |-> Absent,
   user_id |-> ABSENT, created_at |-> Absent, payload |-> ABSENT,
   retry_count |-> Absent, max_retries |-> Absent,
   processing_started_at |-> Absent, processing_completed_at |-> Absent,
   error_message |-> ABSENT, assigned_worker |-> ABSENT, result |-> ABSENT]

VARIABLES
  jobs,      \* jobs_table: job id -> stored item (NoItem when there is none)
  msgs,      \* every message ever sent to the broker, in send order
  nextId,    \* the next fresh job id
  now,       \* datetime.utcnow()
  call,      \* per process: the complete_job or fail_job call it is in
  origin,    \* history: the client enqueue each record descends from
  client,    \* sqs_client: how it treats a request parameter it does not know
  store      \* the S3 bucket: the objects put, manifest.json, the uuids drawn

vars == <<jobs, msgs, nextId, now, call, origin, client, store>>


\* ------------------------------------------------------------ pure helpers
\* dict.get(key, default) on a stored item's numeric attribute
Get(value, default) == IF value = Absent THEN default ELSE value

Min(a, b) == IF a <= b THEN a ELSE b
Max(a, b) == IF a >= b THEN a ELSE b

NewJob_DefaultPriority(id, qt, prio, user, payload, t) ==
  [job_id |-> id, queue_type |-> qt, status |-> QUEUED, priority |-> 2,
   user_id |-> user, created_at |-> t, payload |-> payload,
   retry_count |-> 0, max_retries |-> DefaultMaxRetries,
   processing_started_at |-> None, processing_completed_at |-> None,
   error_message |-> NONE, assigned_worker |-> NONE, result |-> ABSENT]

\* QueueJob(...).to_dict() as enqueue_job builds it
NewJob(id, qt, prio, user, payload, t) ==
  [job_id |-> id, queue_type |-> qt, status |-> QUEUED, priority |-> prio,
   user_id |-> user, created_at |-> t, payload |-> payload,
   retry_count |-> 0, max_retries |-> DefaultMaxRetries,
   processing_started_at |-> None, processing_completed_at |-> None,
   error_message |-> NONE, assigned_worker |-> NONE, result |-> ABSENT]

delay_seconds_Inverted(prio) == Max(0, (prio - 1) * 2)

\* delay_seconds = max(0, (4 - priority.value) * 2)
delay_seconds(prio) == Max(0, (4 - prio) * 2)

\* the message send_message puts on the queue
NewMessage(id, qt, prio) ==
  [job_id |-> id, queue_type |-> qt, priority |-> prio,
   delay |-> delay_seconds(prio),
   state |-> IF delay_seconds(prio) > 0 THEN "delayed" ELSE "visible",
   receive_count |-> 0]

\* json.dumps(message_body): a payload read back from the table carries its
\* numbers as Decimal, which json.dumps refuses
Serializable(payload, from_table) ==
  ~(from_table /\ payload = "files_with_counts")

\* QueueJob.from_dict(item): cls(**data) needs every field without a default
\* and accepts no attribute that is not a field (complete_job adds "result")
FromDictOk(item) ==
  /\ item.queue_type \in QueueType
  /\ item.status # ABSENT
  /\ item.priority \in JobPriority
  /\ item.user_id # ABSENT
  /\ item.created_at # Absent
  /\ item.payload # ABSENT
  /\ item.result = ABSENT

NotFound_Never(item) == FALSE

\* get_item(Key={'job_id': job_id}): 'Item' not in response
NotFound(item) == item = NoItem

\* get_job_status(job_id): the record, or None when there is no item or
\* from_dict raises
get_job_status(j) ==
  IF ~NotFound(jobs[j]) /\ FromDictOk(jobs[j]) THEN jobs[j] ELSE NoItem

\* update_item(Key={'job_id': j}, SET ...): writes the named attributes of the
\* item, creating the item when the key has none
Upsert(j) == IF jobs[j] = NoItem THEN [NoItem EXCEPT !.job_id = j] ELSE jobs[j]

\* job_data: the item a call read (the attributes the engine looks at)
Snapshot(item) ==
  [status |-> item.status,
   queue_type |-> item.queue_type, priority |-> item.priority,
   payload |-> item.payload, user_id |-> item.user_id,
   retry_count |-> item.retry_count, max_retries |-> item.max_retries]

\* a process that is in no call. Otherwise pc is "holding" for a worker that
\* dequeue_job returned a job to (job_id, and the receipt handle left in the
\* job's payload), or names the collaborator call that comes next in a
\* complete_job, fail_job or purge_completed_jobs call, the other fields being
\* the call's arguments and locals
\* no statistics asked for yet
NoStats ==
  [error |-> FALSE, queues |-> {}, total_dlq_messages |-> 0,
   overall_health |-> NONE]

\* no process_job under way: the results dict before the call, and where the
\* call stands (pc, the loop index i)
NoRun ==
  [pc |-> "none", files |-> <<>>, filenames |-> <<>>, urls |-> <<>>, i |-> 0,
   processed_documents |-> <<>>, failed_documents |-> <<>>,
   total_documents |-> 0, successful_documents |-> 0,
   failed_documents_count |-> 0]

\* no process_job_async under way: the status of the job's record in the
\* jobs table of DynamoDBService (NONE: no handler has run), and whether the
\* handler's try block raised
NoHandler == [status |-> NONE, raised |-> FALSE]

\* no process_pdf under way: the words of text_content, the OCR calls made so
\* far, processing_method, and whether the call raised
NoPdf ==
  [pc |-> "none", direct_words |-> 0, words |-> 0, ocr_calls |-> <<>>,
   processing_method |-> NONE, raised |-> FALSE]

\* no _generate_vector_sidecar under way: the loop over the chunks (i, 0-based
\* as in the code), the attempt of _get_titan_embedding on chunk i, the
\* embeddings list and failed_chunks; and what the collaborators saw: per
\* chunk the answers of invoke_model and the asyncio.sleep waits
NoSidecar ==
  [pc |-> "none", total_chunks |-> 0, i |-> 0, attempt |-> 0,
   embeddings |-> <<>>, failed_chunks |-> 0, successful_chunks |-> 0,
   raised |-> FALSE, answers |-> <<>>, sleeps |-> <<>>]

\* manifest.json before its first put_object (get_object raises NoSuchKey),
\* and what _update_manifest starts from then
NoManifest == [exists |-> FALSE, documents |-> <<>>, document_count |-> 0]

\* the bucket before any upload
EmptyBucket == [objects |-> {}, manifest |-> NoManifest, uuids |-> 0]

\* no _upload_document_to_s3 under way: the manifest entry being added and
\* the manifest as _update_manifest read it
NoUpload ==
  [manifest_entry |-> [document_id |-> 0], manifest |-> NoManifest]

\* no _chunk_text_intelligently called yet: its arguments and the chunks it
\* returned (each a sequence of words), with the number of overlap words each
\* returned chunk was started with
NoChunking ==
  [text |-> <<>>, chunk_size |-> 0, overlap |-> 0, chunks |-> <<>>,
   seeds |-> <<>>]

IdleCall ==
  [pc |-> "idle", job_id |-> 0, error |-> NONE, retry |-> FALSE,
   result |-> NONE, held |-> NoHandle, job_data |-> Snapshot(NoItem),
   items |-> {}, deleted_count |-> 0,
   active_worker_count |-> 0, workers |-> [w \in {} |-> 0],
   stats |-> NoStats, run |-> NoRun, handler |-> NoHandler,
   pdf |-> NoPdf, sidecar |-> NoSidecar, chunking |-> NoChunking,
   upload |-> NoUpload]

Ready(p) == call[p].pc \in {"idle", "holding"}
Holding(p) == call[p].pc = "holding"

\* messages of a queue that receive_message can hand out
Visible(qt) ==
  {m \in 1..Len(msgs) : msgs[m].queue_type = qt /\ msgs[m].state = "visible"}

TypeOK ==
  /\ nextId \in 1..(MaxJobs + 1)
  /\ now \in 1..Max(Max(MaxTime, MaxSeconds), MaxMinutes)
  /\ Len(msgs) <= MaxJobs
  /\ \A j \in JobIds : jobs[j].job_id \in {0, j}
  /\ client \in SqsClients
  /\ \A p \in Procs : call[p].pc \in {"idle", "holding", "complete_write", "fail_write",
                                     "fail_enqueue", "purge_delete", "process_job",
                                     "update_job_status", "mark_job_failed",
                                     "process_pdf", "generate_vector_sidecar",
                                     "manifest_get", "manifest_put"}

Init ==
  /\ jobs = [j \in JobIds |-> NoItem]
  /\ msgs = << >>
  /\ nextId = 1
  /\ now = 1
  /\ call = [p \in Procs |-> IdleCall]
  /\ origin = [j \in JobIds |-> 0]
  /\ client \in SqsClients
  /\ store = EmptyBucket

\* ------------------------------------------------------------- enqueue_job
\* whether send_message puts the message on the queue: the queue type has a
\* queue (else queue_configs[...] raises KeyError), the body serialises, and
\* the broker accepted it
Sent(qt, payload, from_table, accepted) ==
  /\ qt \in ConfiguredQueues
  /\ Serializable(payload, from_table)
  /\ accepted

\* what enqueue_job gives its caller: the job id, or the exception re-raised
EnqueueReturn(id, sent) == IF sent THEN id ELSE 0

EnqueueEffect_PublishFirst(qt, payload, user, prio, sent, root) ==
  /\ nextId <= MaxJobs
  /\ jobs' = IF sent
              THEN [jobs EXCEPT ![nextId] = NewJob(nextId, qt, prio, user, payload, now)]
              ELSE jobs
  /\ msgs' = IF sent THEN Append(msgs, NewMessage(nextId, qt, prio)) ELSE msgs
  /\ nextId' = nextId + 1
  /\ origin' = [origin EXCEPT ![nextId] = IF root = 0 THEN nextId ELSE root]

\* put_item of the new record, then send_message
EnqueueEffect(qt, payload, user, prio, sent, root) ==
  /\ nextId <= MaxJobs
  /\ jobs' = [jobs EXCEPT ![nextId] = NewJob(nextId, qt, prio, user, payload, now)]
  /\ msgs' = IF sent THEN Append(msgs, NewMessage(nextId, qt, prio)) ELSE msgs
  /\ nextId' = nextId + 1
  /\ origin' = [origin EXCEPT ![nextId] = IF root = 0 THEN nextId ELSE root]

\* the client enqueue calls made so far
Submitted == Cardinality({j \in JobIds : origin[j] = j})

Enqueue(qt, sub, prio, accepted) ==
  /\ Submitted < MaxSubmissions
  /\ EnqueueEffect(qt, sub.payload, sub.user_id, prio,
                   Sent(qt, sub.payload, FALSE, accepted), 0)
  /\ UNCHANGED <<now, call, client, store>>

\* ------------------------------------------------------------- dequeue_job
DequeueUpdate_KeepsFirstStart(item, worker_id) ==
  [item EXCEPT !.status = PROCESSING,
               !.processing_started_at = IF @ \in {None, Absent} THEN now ELSE @,
               !.assigned_worker = worker_id]

\* receive_message, then one update_item on the record the message names
DequeueUpdate(item, worker_id) ==
  [item EXCEPT !.status = PROCESSING,
               !.processing_started_at = now,
               !.assigned_worker = worker_id]

\* receive_message(QueueUrl, MaxNumberOfMessages, WaitTimeSeconds,
\* VisibilityTimeoutSeconds, MessageAttributeNames): the input shape of
\* ReceiveMessage names its visibility parameter VisibilityTimeout
ReceiveRequestAccepted == client = "lenient"

\* how dequeue_job ends for a queue type: KeyError for a queue type without a
\* queue, the client's error re-raised when it refuses the request, None when
\* the long poll finds no message, else a lease
DequeueOutcome(qt) ==
  IF qt \notin ConfiguredQueues THEN "raised"
  ELSE IF ~ReceiveRequestAccepted THEN "raised"
  ELSE IF Visible(qt) = {} THEN "none"
  ELSE "lease"

\* what dequeue_job gives the worker for the item its update returned
\* (ALL_NEW): the job, unless QueueJob.from_dict raises on it
DequeueReturn(item) == IF FromDictOk(item) THEN item ELSE NoItem

\* the lease of message m by worker_id: the receive, the update, and the job
\* handed to the worker with the receipt handle in its payload
Lease(worker_id, m) ==
  LET j == msgs[m].job_id
      rc == msgs[m].receive_count + 1
      item == DequeueUpdate(Upsert(j), worker_id)
  IN
  /\ msgs' = [msgs EXCEPT ![m].state = "inflight", ![m].receive_count = rc]
  /\ jobs' = [jobs EXCEPT ![j] = item]
  /\ call' = [call EXCEPT ![worker_id] =
       IF DequeueReturn(item) # NoItem
         THEN [IdleCall EXCEPT !.pc = "holding", !.job_id = j,
                               !.held = [msg |-> m, rc |-> rc]]
         ELSE IdleCall]

Dequeue(worker_id, qt) ==
  /\ Ready(worker_id)
  /\ IF DequeueOutcome(qt) = "lease"
       THEN \E m \in Visible(qt) : Lease(worker_id, m)
       ELSE /\ call' = [call EXCEPT ![worker_id] = IdleCall]
            /\ UNCHANGED <<jobs, msgs>>
  /\ UNCHANGED <<nextId, now, origin, client, store>>

\* ------------------------------------------------------------ complete_job
\* the results a caller may pass: None, the pipeline's summary, or a summary
\* into which the caller copied the receipt handle of its lease
Results == {NONE, "summary", "summary_with_handle"}

\* the receipt handles issued so far for job j: one per receive of a message
\* that names j
Handles(j) ==
  UNION {{[msg |-> m, rc |-> r] : r \in 1..msgs[m].receive_count} :
           m \in {n \in 1..Len(msgs) : msgs[n].job_id = j}}

\* get_item and the duration computation; `held` is the receipt handle the
\* caller got with the job (NoHandle for a caller that never leased it)
CompleteRead(p, j, result, held) ==
  /\ Ready(p)
  /\ result = "summary_with_handle" => held # NoHandle
  /\ call' = [call EXCEPT ![p] =
       IF NotFound(jobs[j]) \/ jobs[j].processing_started_at = None
         THEN \* "Job not found", or fromisoformat(None): caught, return False
              IdleCall
         ELSE [IdleCall EXCEPT !.pc = "complete_write", !.job_id = j,
                               !.result = result, !.held = held,
                               !.job_data = Snapshot(jobs[j])]]
  /\ UNCHANGED <<jobs, msgs, nextId, now, origin, client, store>>

CompleteUpdate(item, result) ==
  [item EXCEPT !.status = COMPLETED,
               !.processing_completed_at = now,
               !.result = IF result # NONE THEN result ELSE @]

\* delete_message(ReceiptHandle=h): removes the message the handle was issued
\* for, unless the message has been received again since
DeleteMessage(h) ==
  IF msgs[h.msg].receive_count = h.rc /\ msgs[h.msg].state \in {"inflight", "visible"}
    THEN [msgs EXCEPT ![h.msg].state = "deleted"]
    ELSE msgs

\* whether complete_job reaches delete_message: the handle is looked up in
\* `result`, and the record read must name a configured queue
CompleteDeletes(c) ==
  /\ c.result = "summary_with_handle"
  /\ c.job_data.queue_type \in ConfiguredQueues

\* update_item, then delete_message when the result carries a receipt handle
CompleteWrite(p) ==
  LET c == call[p] IN
  /\ c.pc = "complete_write"
  /\ jobs' = [jobs EXCEPT ![c.job_id] = CompleteUpdate(Upsert(c.job_id), c.result)]
  /\ msgs' = IF CompleteDeletes(c) THEN DeleteMessage(c.held) ELSE msgs
  /\ call' = [call EXCEPT ![p] = IdleCall]
  /\ UNCHANGED <<nextId, now, origin, client, store>>

\* ---------------------------------------------------------------- fail_job
\* get_item
FailRead(p, j, error, retry) ==
  /\ Ready(p)
  /\ call' = [call EXCEPT ![p] =
       IF NotFound(jobs[j])
         THEN \* "Job not found": caught, return False
              IdleCall
         ELSE [IdleCall EXCEPT !.pc = "fail_write", !.job_id = j,
                               !.error = error, !.retry = retry,
                               !.job_data = Snapshot(jobs[j])]]
  /\ UNCHANGED <<jobs, msgs, nextId, now, origin, client, store>>

WillRetry_OffByOne(c) ==
  /\ c.retry
  /\ Get(c.job_data.retry_count, 0) <= Get(c.job_data.max_retries, DefaultMaxRetries)

\* retry and retry_count < max_retries, on the record as it was read
WillRetry(c) ==
  /\ c.retry
  /\ Get(c.job_data.retry_count, 0) < Get(c.job_data.max_retries, DefaultMaxRetries)

RetryUpdate_NoIncrement(item, c) ==
  [item EXCEPT !.retry_count = Get(c.job_data.retry_count, 0),
               !.error_message = c.error,
               !.status = QUEUED]

RetryUpdate(item, c) ==
  [item EXCEPT !.retry_count = Get(c.job_data.retry_count, 0) + 1,
               !.error_message = c.error,
               !.status = QUEUED]

PermanentUpdate_ReleasesWorker(item, c) ==
  [item EXCEPT !.status = FAILED,
               !.error_message = c.error,
               !.processing_completed_at = now,
               !.assigned_worker = NONE]

\* SET #status = :status, error_message = :error, updated_at,
\* processing_completed_at
PermanentUpdate(item, c) ==
  [item EXCEPT !.status = FAILED,
               !.error_message = c.error,
               !.processing_completed_at = now]

\* the update_item of either branch
FailWrite(p) ==
  LET c == call[p] IN
  /\ c.pc = "fail_write"
  /\ IF WillRetry(c)
       THEN /\ jobs' = [jobs EXCEPT ![c.job_id] = RetryUpdate(Upsert(c.job_id), c)]
            /\ call' = [call EXCEPT ![p].pc = "fail_enqueue"]
       ELSE /\ jobs' = [jobs EXCEPT ![c.job_id] = PermanentUpdate(Upsert(c.job_id), c)]
            /\ call' = [call EXCEPT ![p] = IdleCall]
  /\ UNCHANGED <<msgs, nextId, now, origin, client, store>>

\* priority = JobPriority(min(4, job_data.get('priority', 2) + 1))
RetryPriority(item) == Min(URGENT, Get(item.priority, 2) + 1)

\* how the collaborators answer an enqueue_job call: both writes succeed, the
\* record is written and the publish fails, or put_item itself fails
Outcomes == {"sent", "publish_failed", "put_failed"}

\* the retry branch's enqueue_job call, with the attributes of the record read;
\* whatever enqueue_job raises is caught by fail_job, which returns False
FailEnqueue(p, outcome) ==
  LET c == call[p]
      d == c.job_data
  IN
  /\ c.pc = "fail_enqueue"
  /\ IF \/ d.queue_type \notin QueueType \/ d.payload = ABSENT \/ d.user_id = ABSENT
        \/ outcome = "put_failed"
       THEN \* QueueType(job_data['queue_type']) or job_data[...] raises KeyError,
            \* or put_item raises
            UNCHANGED <<jobs, msgs, nextId, origin>>
       ELSE EnqueueEffect(d.queue_type, d.payload, d.user_id, RetryPriority(d),
                          Sent(d.queue_type, d.payload, TRUE, outcome = "sent"),
                          origin[c.job_id])
  /\ call' = [call EXCEPT ![p] = IdleCall]
  /\ UNCHANGED <<now, client, store>>

\* dashboard cancel_job: get_job_status, the status check, then
\* fail_job(job_id, "Cancelled by user", retry=False)
CancelJob(p, j) ==
  /\ get_job_status(j) # NoItem
  /\ get_job_status(j).status \in {QUEUED, PROCESSING}
  /\ FailRead(p, j, "Cancelled by user", FALSE)

\* ---------------------------------------------------- purge_completed_jobs
\* the items one Scan call evaluates: the table is read in its scan order (here
\* the order of the ids) up to the key at which the call's page ends
\* (LastEvaluatedKey); the code makes one call and reads response['Items']
ScanPage(last) == {j \in JobIds : j <= last /\ jobs[j] # NoItem}

\* #status IN (:completed, :failed) AND processing_completed_at < :cutoff
\* (a comparison with a missing or NULL attribute is false)
PurgeFilter(item, cutoff) ==
  /\ item.status \in {COMPLETED, FAILED}
  /\ item.processing_completed_at \notin {None, Absent}
  /\ item.processing_completed_at < cutoff

\* cutoff_date = utcnow() - timedelta(days=days_old), then the scan; the clock
\* counts days here
PurgeScan(p, days_old, last) ==
  LET found == {j \in ScanPage(last) : PurgeFilter(jobs[j], now - days_old)} IN
  /\ Ready(p)
  /\ call' = [call EXCEPT ![p] =
       IF found = {}
         THEN \* nothing to delete: return 0
              IdleCall
         ELSE [IdleCall EXCEPT !.pc = "purge_delete", !.items = found]]
  /\ UNCHANGED <<jobs, msgs, nextId, now, origin, client, store>>

\* one turn of the loop: delete_item(Key={'job_id': ...}) for the next item of
\* the response, deleted_count += 1; after the last item the call returns
PurgeDelete(p) ==
  LET c == call[p]
      j == CHOOSE i \in c.items : \A k \in c.items : i <= k
  IN
  /\ c.pc = "purge_delete"
  /\ jobs' = [jobs EXCEPT ![j] = NoItem]
  /\ call' = [call EXCEPT ![p] =
       IF c.items = {j}
         THEN IdleCall
         ELSE [c EXCEPT !.items = @ \ {j}, !.deleted_count = @ + 1]]
  /\ UNCHANGED <<msgs, nextId, now, origin, client, store>>

\* ------------------------------------------------------- get_active_workers
\* timedelta(minutes=10): how long after its start a job still counts as a
\* sign of life of its worker
ActiveWindow == 10

\* #status = :status AND processing_started_at > :cutoff
ActiveFilter(item, cutoff) ==
  /\ item.status = PROCESSING
  /\ item.processing_started_at \notin {None, Absent}
  /\ item.processing_started_at > cutoff

\* response['Items'] of the one Scan call; the clock counts minutes here
ActiveItems(last) ==
  {j \in ScanPage(last) : ActiveFilter(jobs[j], now - ActiveWindow)}

\* the loop over the items: worker_id = item.get('assigned_worker'), skipped
\* when falsy, else one entry per worker_id with job_count += 1 per item
WorkersOf(items) ==
  LET ids == {jobs[j].assigned_worker : j \in items} \ {NONE, ABSENT} IN
  [w \in ids |-> Cardinality({j \in items : jobs[j].assigned_worker = w})]

\* get_active_workers: 'active_worker_count': len(workers) and, per worker,
\* its job_count, kept in the caller's response
get_active_workers(p, last) ==
  LET workers == WorkersOf(ActiveItems(last)) IN
  /\ call[p].pc = "idle"
  /\ call' = [call EXCEPT ![p] =
       [IdleCall EXCEPT !.active_worker_count = Cardinality(DOMAIN workers),
                        !.workers = workers]]
  /\ UNCHANGED <<jobs, msgs, nextId, now, origin, client, store>>

\* ----------------------------------------------------- get_queue_statistics
\* ApproximateNumberOfMessages of the dead-letter queue of a queue type
DlqMessages(qt) ==
  Cardinality({m \in 1..Len(msgs) :
                 msgs[m].queue_type = qt /\ msgs[m].state = "dlq"})

queue_health_Tolerant(messages) == IF messages <= 1 THEN "healthy" ELSE "warning"
\* 'healthy' if int(dlq_attrs.get('ApproximateNumberOfMessages', 0)) == 0
\* else 'warning'
queue_health(messages) == IF messages = 0 THEN "healthy" ELSE "warning"

\* 'healthy' if total_dlq_messages == 0 else 'warning'
overall_health(total_dlq_messages) ==
  IF total_dlq_messages = 0 THEN "healthy" ELSE "warning"

\* sum(q['dead_letter_queue']['messages'] for q in stats['queues'].values())
RECURSIVE total_dlq_messages(_)
total_dlq_messages(queue_types) ==
  IF queue_types = {} THEN 0
  ELSE LET qt == CHOOSE q \in queue_types : TRUE IN
       DlqMessages(qt) + total_dlq_messages(queue_types \ {qt})

\* get_queue_statistics(queue_type): the queue types are the one given, or
\* list(QueueType) when none is given; queue_configs[qt] raises for a type
\* without a queue, and any exception makes the answer
\* {'error', 'overall_health': 'unhealthy'} (no 'queues' key, kept as {})
get_queue_statistics(p, queue_type) ==
  LET queue_types == IF queue_type = NONE THEN QueueType ELSE {queue_type}
      stats ==
        IF queue_types \subseteq ConfiguredQueues
          THEN [error |-> FALSE,
                queues |-> {[queue_type |-> qt,
                             messages |-> DlqMessages(qt),
                             queue_health |-> queue_health(DlqMessages(qt))] :
                            qt \in queue_types},
                total_dlq_messages |-> total_dlq_messages(queue_types),
                overall_health |->
                  overall_health(total_dlq_messages(queue_types))]
          ELSE [NoStats EXCEPT !.error = TRUE, !.overall_health = "unhealthy"]
  IN
  /\ call[p].pc = "idle"
  /\ call' = [call EXCEPT ![p] = [IdleCall EXCEPT !.stats = stats]]
  /\ UNCHANGED <<jobs, msgs, nextId, now, origin, client, store>>

\* ------------------------------------------- DocumentProcessor.process_job
\* the lists a caller can pass (None and [] are both falsy: <<>>)
FileLists == {SubSeq(<<"pdf1", "pdf2", "pdf3">>, 1, n) : n \in 0..MaxInputs}
FilenameLists == {SubSeq(<<"a.pdf", "b.pdf", "c.pdf">>, 1, n) : n \in 0..MaxInputs}
UrlLists == {SubSeq(<<"http://a", "http://b", "http://c">>, 1, n) : n \in 0..MaxInputs}

\* the turns of `for ... in zip(files, filenames)` under `if files and
\* filenames`: zip stops at the end of the shorter list
FilePairs(r) ==
  IF r.files # <<>> /\ r.filenames # <<>>
    THEN Min(Len(r.files), Len(r.filenames)) ELSE 0

\* if files and filenames: results['total_documents'] += len(files)
CountFiles(r) ==
  IF r.files # <<>> /\ r.filenames # <<>>
    THEN [r EXCEPT !.total_documents = @ + Len(r.files)] ELSE r

\* after the last pair: if urls: results['total_documents'] += len(urls)
EnterUrls(r) ==
  IF r.pc = "files" /\ r.i >= FilePairs(r)
    THEN [r EXCEPT !.pc = "urls", !.i = 0,
                   !.total_documents = @ + Len(r.urls)]
    ELSE r

\* after the last url: return results
ReturnResults(r) ==
  IF r.pc = "urls" /\ r.i >= Len(r.urls) THEN [r EXCEPT !.pc = "returned"] ELSE r

\* where the call stands after a step, and the caller with it
\* (a call made by process_job_async returns to that handler, which goes on to
\* update_job_status)
ProceedUnder(p, r, handler) ==
  LET after == ReturnResults(EnterUrls(r)) IN
  /\ call' = [call EXCEPT ![p] =
       [IdleCall EXCEPT !.pc = IF after.pc # "returned" THEN "process_job"
                                ELSE IF handler = NoHandler THEN "idle"
                                ELSE "update_job_status",
                        !.run = after,
                        !.handler = handler]]
  /\ UNCHANGED <<jobs, msgs, nextId, now, origin, client, store>>

Proceed(p, r) == ProceedUnder(p, r, call[p].handler)

\* process_job(job_id, files, filenames, urls): the results dict and the
\* count of the files
ProcessJob(p, files, filenames, urls) ==
  /\ call[p].pc = "idle"
  /\ Proceed(p, CountFiles([NoRun EXCEPT !.pc = "files", !.files = files,
                                         !.filenames = filenames,
                                         !.urls = urls]))

\* one turn of the loop over the files: process_pdf and the upload succeed
\* (ok) or one of them raises
ProcessFile(p, ok) ==
  LET r == call[p].run  n == r.i + 1 IN
  /\ call[p].pc = "process_job" /\ r.pc = "files"
  /\ Proceed(p,
       IF ok
         THEN [r EXCEPT !.i = n,
                 !.processed_documents = Append(@, [filename |-> r.filenames[n]]),
                 !.successful_documents = @ + 1]
         ELSE [r EXCEPT !.i = n,
                 !.failed_documents =
                    Append(@, [filename |-> r.filenames[n], error |-> "boom",
                               type |-> "pdf"]),
                 !.failed_documents_count = @ + 1])

\* one turn of the loop over the urls
ProcessUrl(p, ok) ==
  LET r == call[p].run  n == r.i + 1 IN
  /\ call[p].pc = "process_job" /\ r.pc = "urls"
  /\ Proceed(p,
       IF ok
         THEN [r EXCEPT !.i = n,
                 !.processed_documents = Append(@, [url |-> r.urls[n]]),
                 !.successful_documents = @ + 1]
         ELSE [r EXCEPT !.i = n,
                 !.failed_documents =
                    Append(@, [url |-> r.urls[n], error |-> "boom",
                               type |-> "url"]),
                 !.failed_documents_count = @ + 1])

\* ------------------------------------------ lambda_handler.process_job_async
\* the events: one file_info per file of the job
EventFiles == 0..MaxInputs

final_status_NeedsASuccess(results) ==
  IF results.successful_documents = 0 THEN "failed" ELSE "completed"
\* the status the handler writes once process_job has returned its results
final_status(results) == "completed"

\* process_job_async(event): the downloads (get_object per file), then
\* process_job(files=file_contents, filenames=filenames); a download that
\* raises takes the handler to its except clause
process_job_async(p, n, downloaded) ==
  /\ call[p].pc = "idle"
  /\ IF downloaded
       THEN ProceedUnder(p,
              CountFiles([NoRun EXCEPT !.pc = "files",
                            !.files = SubSeq(<<"pdf1", "pdf2", "pdf3">>, 1, n),
                            !.filenames = SubSeq(<<"a.pdf", "b.pdf", "c.pdf">>, 1, n)]),
              [status |-> "processing", raised |-> FALSE])
       ELSE /\ n > 0
            /\ call' = [call EXCEPT ![p] =
                 [IdleCall EXCEPT !.pc = "mark_job_failed",
                                  !.handler = [status |-> "processing",
                                               raised |-> TRUE]]]
            /\ UNCHANGED <<jobs, msgs, nextId, now, origin, client, store>>

\* update_job_status(job_id, 'completed', documents_processed=...): the table
\* takes the update, or update_item raises and the except clause is next
UpdateJobStatus(p, accepted) ==
  /\ call[p].pc = "update_job_status"
  /\ call' = [call EXCEPT ![p] =
       IF accepted
         THEN [@ EXCEPT !.pc = "idle",
                        !.handler.status = final_status(call[p].run)]
         ELSE [@ EXCEPT !.pc = "mark_job_failed", !.handler.raised = TRUE]]
  /\ UNCHANGED <<jobs, msgs, nextId, now, origin, client, store>>

\* except Exception: mark_job_failed(job_id, str(e)); if that raises too the
\* record stays as it was
MarkJobFailed(p, accepted) ==
  /\ call[p].pc = "mark_job_failed"
  /\ call' = [call EXCEPT ![p] =
       IF accepted
         THEN [@ EXCEPT !.pc = "idle", !.handler.status = "failed"]
         ELSE [@ EXCEPT !.pc = "idle"]]
  /\ UNCHANGED <<jobs, msgs, nextId, now, origin, client, store>>

\* ------------------------------------------- DocumentProcessor.process_pdf
\* if word_count < 50: the yield below which OCR is tried
OcrWordFloor == 50
\* word counts a text layer or an OCR answer can have
WordCounts == {0, 30, OcrWordFloor - 1, OcrWordFloor, 120}
\* what an OCR call gives: the words of its text, or it raises
Raised == -1
OcrOutcomes == WordCounts \cup {Raised}

\* after the tiers: `if not text_content.strip(): raise`, else the metadata
\* with processing_method
PdfDone(r) ==
  IF r.words = 0 THEN [r EXCEPT !.pc = "done", !.raised = TRUE]
  ELSE [r EXCEPT !.pc = "done"]

PdfStep(p, r) ==
  /\ call' = [call EXCEPT ![p] =
       [IdleCall EXCEPT !.pc = IF r.pc = "done" THEN "idle" ELSE "process_pdf",
                        !.pdf = r]]
  /\ UNCHANGED <<jobs, msgs, nextId, now, origin, client, store>>

\* the text layer (PyPDF2): word_count = len(text_content.split()), and the
\* test `word_count < 50`
ExtractText(p, word_count) ==
  /\ call[p].pc = "idle"
  /\ PdfStep(p,
       LET r == [NoPdf EXCEPT !.direct_words = word_count, !.words = word_count,
                              !.processing_method = "PyPDF2"]
       IN IF word_count < OcrWordFloor
            THEN [r EXCEPT !.pc = "ocr_advanced"]
            ELSE PdfDone(r))

\* ocr_data = await self._ocr_with_textract_advanced(file_content)
\* (analyze_document with TABLES and FORMS); kept if it has more words; if it
\* raises, the except clause goes on to the basic OCR
OcrAdvanced(p, outcome) ==
  LET r == [call[p].pdf EXCEPT !.ocr_calls = Append(@, "analyze_document")] IN
  /\ call[p].pc = "process_pdf" /\ call[p].pdf.pc = "ocr_advanced"
  /\ PdfStep(p,
       IF outcome = Raised THEN [r EXCEPT !.pc = "ocr_basic"]
       ELSE IF outcome > r.direct_words
         THEN PdfDone([r EXCEPT !.words = outcome,
                         !.processing_method = "PyPDF2 + Textract Advanced OCR"])
       ELSE PdfDone(r))

\* basic_ocr_text = await self._ocr_with_textract(file_content)
\* (detect_document_text, lines with Confidence > 80); kept if it has more
\* words; if it raises too, the text layer is all there is
OcrBasic(p, outcome) ==
  LET r == [call[p].pdf EXCEPT !.ocr_calls = Append(@, "detect_document_text")] IN
  /\ call[p].pc = "process_pdf" /\ call[p].pdf.pc = "ocr_basic"
  /\ PdfStep(p,
       IF outcome # Raised /\ outcome > r.direct_words
         THEN PdfDone([r EXCEPT !.words = outcome,
                         !.processing_method = "PyPDF2 + Textract Basic OCR"])
       ELSE PdfDone(r))

\* ----------------------------- _generate_vector_sidecar, _get_titan_embedding
\* len(embedding) of Titan v1, and max_retries of _get_titan_embedding
EmbeddingDimensions == 1536
EmbeddingMaxRetries == 3
\* a vector of another length, as another model would return
OtherDimensions == 1024
\* what invoke_model gives: it raises, or a vector of some length
EmbeddingAnswers == {Raised, OtherDimensions, EmbeddingDimensions}
ChunkCounts == 0..MaxChunks

\* the entry appended to embeddings for chunk i (the keys that do not depend
\* on the text or the clock)
ChunkEntry(i, embedding) ==
  [chunk_index |-> i, embedding |-> embedding,
   metadata |-> [chunk_index |-> i, embedding_dimensions |-> embedding,
                 embedding_model_version |-> "amazon.titan-embed-text-v1"]]

\* after the loop: `if not embeddings: raise`, else the sidecar with
\* total_chunks, successful_chunks = len(embeddings), failed_chunks
SidecarResult(r) ==
  IF r.i < r.total_chunks THEN r
  ELSE IF r.embeddings = <<>> THEN [r EXCEPT !.pc = "done", !.raised = TRUE]
  ELSE [r EXCEPT !.pc = "done", !.successful_chunks = Len(r.embeddings)]

ChunkFailed_Aborts(r) ==
  SidecarResult([r EXCEPT !.failed_chunks = @ + 1, !.i = r.total_chunks,
                          !.attempt = 0])
\* except Exception: failed_chunks += 1; continue
ChunkFailed(r) ==
  SidecarResult([r EXCEPT !.failed_chunks = @ + 1, !.i = @ + 1, !.attempt = 0])

\* embeddings.append({...}) and on to the next chunk
ChunkEmbedded(r, embedding) ==
  SidecarResult([r EXCEPT !.embeddings = Append(@, ChunkEntry(r.i, embedding)),
                          !.i = @ + 1, !.attempt = 0])

SidecarStep(p, r) ==
  /\ call' = [call EXCEPT ![p] =
       [IdleCall EXCEPT !.pc = IF r.pc = "done" THEN "idle"
                                ELSE "generate_vector_sidecar",
                        !.sidecar = r]]
  /\ UNCHANGED <<jobs, msgs, nextId, now, origin, client, store>>

\* _generate_vector_sidecar(text_content, source_identifier) for a text that
\* _chunk_text_intelligently cuts into n chunks; `if not chunks: raise`
GenerateVectorSidecar(p, n) ==
  /\ call[p].pc = "idle"
  /\ SidecarStep(p,
       IF n = 0 THEN [NoSidecar EXCEPT !.pc = "done", !.raised = TRUE]
       ELSE [NoSidecar EXCEPT !.pc = "embed", !.total_chunks = n,
                              !.answers = [k \in 1..n |-> <<>>],
                              !.sleeps = [k \in 1..n |-> <<>>]])

Backoff_Fixed(attempt) == 2

\* await asyncio.sleep(2 ** attempt)
Backoff(attempt) == 2 ^ attempt

\* one turn of `for attempt in range(max_retries)` for chunk i: invoke_model
\* answers; a vector of 1536 is returned; anything else (the call raising, a
\* vector of another length) raises inside the try, and the except clause
\* either gives up (last attempt) or sleeps 2 ** attempt and goes round again
InvokeModel(p, answer) ==
  LET c == call[p].sidecar
      k == c.i + 1
      r == [c EXCEPT !.answers[k] = Append(@, answer)]
  IN
  /\ call[p].pc = "generate_vector_sidecar" /\ c.pc = "embed"
  /\ SidecarStep(p,
       IF answer = EmbeddingDimensions THEN ChunkEmbedded(r, answer)
       ELSE IF c.attempt = EmbeddingMaxRetries - 1 THEN ChunkFailed(r)
       ELSE [r EXCEPT !.sleeps[k] = Append(@, Backoff(c.attempt)),
                      !.attempt = @ + 1])

\* -------------------------------------------------- _chunk_text_intelligently
\* chunks = [chunk for chunk in chunks if len(chunk.split()) >= 10]
MinChunkWords == 10

\* A text is its paragraphs (text.split('\n\n')), a paragraph its sentences
\* (_split_into_sentences), a sentence its number of words; the words of a text
\* are numbered 1, 2, ... in reading order.
SentenceSizes == {4, MinChunkWords, 13}
RECURSIVE SeqsUpTo(_, _)
SeqsUpTo(S, n) ==
  IF n = 0 THEN {<<>>}
  ELSE LET shorter == SeqsUpTo(S, n - 1) IN
       shorter \cup {Append(q, x) : q \in shorter, x \in S}
Paragraphs == SeqsUpTo(SentenceSizes, MaxSentences) \ {<<>>}
Texts == SeqsUpTo(Paragraphs, MaxParagraphs) \ {<<>>}
ChunkSizes == {12, 16}
Overlaps == {0, 3}

RECURSIVE SumSeq(_)
SumSeq(q) == IF q = <<>> THEN 0 ELSE q[1] + SumSeq(Tail(q))

\* the words first .. first + n - 1
WordRun(first, n) == [k \in 1..n |-> first + k - 1]

\* paragraph.split() of paragraph k of the text, and sentence.split() of its
\* sentence j
ParagraphStart(text, k) == 1 + SumSeq([m \in 1..(k - 1) |-> SumSeq(text[m])])
ParagraphWords(text, k) == WordRun(ParagraphStart(text, k), SumSeq(text[k]))
SentenceWords(text, k, j) ==
  WordRun(ParagraphStart(text, k) + SumSeq(SubSeq(text[k], 1, j - 1)), text[k][j])

\* current_chunk.split()[-overlap:] if overlap > 0 else []
OverlapWords(current, overlap) ==
  IF overlap > 0
    THEN SubSeq(current, Max(1, Len(current) - overlap + 1), Len(current))
    ELSE <<>>

\* the loop state: chunks, current_chunk (its words), current_size
NoChunks ==
  [chunks |-> <<>>, seeds |-> <<>>, current |-> <<>>, current_size |-> 0,
   seed |-> 0]

\* chunks.append(current_chunk.strip())
CloseChunk(st) ==
  [st EXCEPT !.chunks = Append(@, st.current), !.seeds = Append(@, st.seed)]

\* one sentence of a paragraph that alone exceeds chunk_size
AddSentence(st, sentence_words, chunk_size, overlap) ==
  IF st.current_size + Len(sentence_words) > chunk_size /\ st.current # <<>>
    THEN LET overlap_words == OverlapWords(st.current, overlap) IN
         [CloseChunk(st) EXCEPT
            !.current = overlap_words \o sentence_words,
            !.current_size = Len(overlap_words) + Len(sentence_words),
            !.seed = Len(overlap_words)]
    ELSE [st EXCEPT !.current = @ \o sentence_words,
                    !.current_size = @ + Len(sentence_words)]

RECURSIVE AddSentences(_, _, _, _, _, _)
AddSentences(st, text, k, j, chunk_size, overlap) ==
  IF j > Len(text[k]) THEN st
  ELSE AddSentences(AddSentence(st, SentenceWords(text, k, j), chunk_size, overlap),
                    text, k, j + 1, chunk_size, overlap)

\* one paragraph of the loop `for paragraph in paragraphs`
AddParagraph(st, text, k, chunk_size, overlap) ==
  LET paragraph_words == ParagraphWords(text, k)
      paragraph_size == Len(paragraph_words)
  IN
  IF paragraph_size > chunk_size
    THEN AddSentences(st, text, k, 1, chunk_size, overlap)
  ELSE IF st.current_size + paragraph_size <= chunk_size
    THEN [st EXCEPT !.current = @ \o paragraph_words,
                    !.current_size = @ + paragraph_size]
  ELSE [(IF st.current # <<>> THEN CloseChunk(st) ELSE st) EXCEPT
          !.current = paragraph_words,
          !.current_size = paragraph_size,
          !.seed = 0]

RECURSIVE AddParagraphs(_, _, _, _, _)
AddParagraphs(st, text, k, chunk_size, overlap) ==
  IF k > Len(text) THEN st
  ELSE AddParagraphs(AddParagraph(st, text, k, chunk_size, overlap),
                     text, k + 1, chunk_size, overlap)

\* the positions of the chunks that pass the filter on very small chunks
KeptChunks(chunks) == {n \in 1..Len(chunks) : Len(chunks[n]) >= MinChunkWords}

RECURSIVE Kept(_, _, _)
Kept(q, keep, n) ==
  IF n > Len(q) THEN <<>>
  ELSE (IF n \in keep THEN <<q[n]>> ELSE <<>>) \o Kept(q, keep, n + 1)

\* _chunk_text_intelligently(text, chunk_size, overlap): the loop, the
\* remaining content, the filter
chunk_text_intelligently(text, chunk_size, overlap) ==
  LET st == AddParagraphs(NoChunks, text, 1, chunk_size, overlap)
      all == IF st.current # <<>> THEN CloseChunk(st) ELSE st
      keep == KeptChunks(all.chunks)
  IN [text |-> text, chunk_size |-> chunk_size, overlap |-> overlap,
      chunks |-> Kept(all.chunks, keep, 1), seeds |-> Kept(all.seeds, keep, 1)]

\* a caller chunks a text (once: the function keeps nothing between calls)
ChunkText(p, text, chunk_size, overlap) ==
  /\ call[p].pc = "idle"
  /\ call[p].chunking = NoChunking
  /\ call' = [call EXCEPT ![p] =
       [IdleCall EXCEPT !.chunking =
          chunk_text_intelligently(text, chunk_size, overlap)]]
  /\ UNCHANGED <<jobs, msgs, nextId, now, origin, client, store>>

\* -------------------------------------- _upload_document_to_s3, _update_manifest
\* base_name: the filename without '.pdf', or the netloc of the source_url
BaseNames == {"report", "example.com"}

\* f"documents/{job_id}/{timestamp}_{base_name}.md" and
\* f"sidecars/{job_id}/{timestamp}_{base_name}.sidecar.json"; timestamp is
\* utcnow() to the second
ObjectKey(prefix, job_id, timestamp, base_name) ==
  [prefix |-> prefix, job_id |-> job_id, timestamp |-> timestamp,
   base_name |-> base_name]

\* process_job(job_id, ...): every input of one invocation is uploaded under
\* the job_id of its event, and the invocations run different jobs
EventJob(p) == IF p = "w1" THEN 1 ELSE 2

\* put_object(Key=key, Body=...): the object under the key is the one put last
PutObject(objects, key, document_id) ==
  {o \in objects : o.key # key} \cup {[key |-> key, document_id |-> document_id]}

\* _upload_document_to_s3 up to its manifest entry: doc_id = uuid4(), the
\* keys, the two put_object calls
UploadDocument(p, job_id, base_name) ==
  LET doc_id == store.uuids + 1
      markdown_key == ObjectKey("documents", job_id, now, base_name)
      sidecar_key == ObjectKey("sidecars", job_id, now, base_name)
  IN
  /\ call[p].pc = "idle"
  /\ store.uuids < MaxUploads
  /\ store' = [store EXCEPT
       !.uuids = doc_id,
       !.objects = PutObject(PutObject(@, markdown_key, doc_id),
                             sidecar_key, doc_id)]
  /\ call' = [call EXCEPT ![p] =
       [IdleCall EXCEPT !.pc = "manifest_get",
          !.upload.manifest_entry =
             [document_id |-> doc_id, job_id |-> job_id,
              markdown_s3_key |-> markdown_key, sidecar_s3_key |-> sidecar_key]]]
  /\ UNCHANGED <<jobs, msgs, nextId, now, origin, client>>

\* _update_manifest: get_object(Key='manifest.json'), or the empty manifest
\* on NoSuchKey
ManifestGet(p) ==
  /\ call[p].pc = "manifest_get"
  /\ call' = [call EXCEPT ![p] = [@ EXCEPT !.pc = "manifest_put",
                                            !.upload.manifest = store.manifest]]
  /\ UNCHANGED <<jobs, msgs, nextId, now, origin, client, store>>

\* manifest["documents"].append(manifest_entry); document_count; put_object
AppendEntry(manifest, manifest_entry) ==
  [exists |-> TRUE,
   documents |-> Append(manifest.documents, manifest_entry),
   document_count |-> Len(manifest.documents) + 1]

ManifestPut(p) ==
  /\ call[p].pc = "manifest_put"
  /\ store' = [store EXCEPT !.manifest =
       AppendEntry(call[p].upload.manifest, call[p].upload.manifest_entry)]
  /\ call' = [call EXCEPT ![p] = [@ EXCEPT !.pc = "idle"]]
  /\ UNCHANGED <<jobs, msgs, nextId, now, origin, client>>

\* ------------------------------------------------------------------ broker
\* the DelaySeconds of a message have passed
DelayElapses(m) ==
  /\ msgs[m].state = "delayed"
  /\ msgs' = [msgs EXCEPT ![m].state = "visible"]
  /\ UNCHANGED <<jobs, nextId, now, call, origin, client, store>>

\* the visibility timeout of a leased message has passed without a delete:
\* it is delivered again, or moved to the dead-letter queue once it has been
\* received max_receive_count times
VisibilityTimeout(m) ==
  /\ msgs[m].state = "inflight"
  /\ msgs' = [msgs EXCEPT ![m].state =
       IF msgs[m].receive_count >= max_receive_count(msgs[m].queue_type)
         THEN "dlq" ELSE "visible"]
  /\ UNCHANGED <<jobs, nextId, now, call, origin, client, store>>

Tick ==
  /\ now < MaxTime
  /\ now' = now + 1
  /\ UNCHANGED <<jobs, msgs, nextId, call, origin, client, store>>

\* ----------------------------------------------------------- specification
RECURSIVE Receives(_)
Receives(n) == IF n = 0 THEN 0 ELSE msgs[n].receive_count + Receives(n - 1)

\* the leases handed out so far
Leases == Receives(Len(msgs))

\* The worker loop: dequeue, then complete or fail (retry left at its default)
\* for the job it was handed.
WorkerDequeue(w, qt) == call[w].pc = "idle" /\ Leases < MaxLeases /\ Dequeue(w, qt)
WorkerComplete(w, result) ==
  Holding(w) /\ CompleteRead(w, call[w].job_id, result, call[w].held)
WorkerFail(w, error) == Holding(w) /\ FailRead(w, call[w].job_id, error, TRUE)

\* The engine under its callers: clients enqueue, the workers run their loop,
\* the dashboard cancels jobs. Processes interleave at every collaborator
\* call; the broker moves at any time.
Next ==
  \/ \E qt \in QueueType, sub \in Submissions, pr \in JobPriority,
        ok \in BOOLEAN : Enqueue(qt, sub, pr, ok)
  \/ \E w \in Workers, qt \in QueueType : WorkerDequeue(w, qt)
  \/ \E w \in Workers, r \in Results : WorkerComplete(w, r)
  \/ \E p \in Procs : CompleteWrite(p)
  \/ \E w \in Workers, e \in Errors : WorkerFail(w, e)
  \/ \E p \in Procs : FailWrite(p)
  \/ \E p \in Procs, o \in Outcomes : FailEnqueue(p, o)
  \/ \E j \in JobIds : CancelJob("api", j)
  \/ \E m \in 1..Len(msgs) : DelayElapses(m)
  \/ \E m \in 1..Len(msgs) : VisibilityTimeout(m)

Spec == Init /\ [][Next]_vars

\* The same callers with the clock running, for one queue and one submission.
ClockSubmission == [user_id |-> "u1", payload |-> "urls"]

NextClock ==
  \/ \E pr \in {URGENT - 1, URGENT} :
        Enqueue("maintenance", ClockSubmission, pr, TRUE)
  \/ \E w \in Workers : WorkerDequeue(w, "maintenance")
  \/ \E w \in Workers, r \in Results : WorkerComplete(w, r)
  \/ \E p \in Procs : CompleteWrite(p)
  \/ \E w \in Workers, e \in Errors : WorkerFail(w, e)
  \/ \E p \in Procs : FailWrite(p)
  \/ \E p \in Procs, o \in Outcomes : FailEnqueue(p, o)
  \/ \E j \in JobIds : CancelJob("api", j)
  \/ \E m \in 1..Len(msgs) : DelayElapses(m)
  \/ \E m \in 1..Len(msgs) : VisibilityTimeout(m)
  \/ Tick

SpecClock == Init /\ [][NextClock]_vars

\* The engine as an interface: any process may call complete_job and fail_job
\* for any job id at any time, with either value of retry, and the calls
\* interleave at every collaborator call. The one submission carries counts,
\* so the message of a retry never serialises and the records that retries
\* create stay without a message.
ApiSubmission == [user_id |-> "u2", payload |-> "files_with_counts"]

ApiDequeue(w, qt) == Leases < MaxApiLeases /\ Dequeue(w, qt)

NextCalls ==
  \/ \E ok \in BOOLEAN : Enqueue("document_processing", ApiSubmission, LOW, ok)
  \/ \E w \in Workers : ApiDequeue(w, "document_processing")
  \/ \E p \in Workers, j \in JobIds : CompleteRead(p, j, "summary", NoHandle)
  \/ \E p \in Workers : CompleteWrite(p)
  \/ \E p \in Workers, j \in JobIds, e \in Errors, r \in BOOLEAN : FailRead(p, j, e, r)
  \/ \E p \in Workers : FailWrite(p)
  \/ \E p \in Workers, o \in Outcomes : FailEnqueue(p, o)
  \/ \E m \in 1..Len(msgs) : DelayElapses(m)
  \/ \E m \in 1..Len(msgs) : VisibilityTimeout(m)

SpecCalls == Init /\ [][NextCalls]_vars

\* Every processing attempt fails: each worker reports the job it was handed
\* with fail_job(job_id, error), retry left at its default, and nothing else
\* touches the jobs.
RetrySubmission == [user_id |-> "u1", payload |-> "urls"]

RetryDequeue(w, qt) == call[w].pc = "idle" /\ Dequeue(w, qt)

NextRetry ==
  \/ \E qt \in {"document_processing", "maintenance"}, pr \in JobPriority :
        Enqueue(qt, RetrySubmission, pr, TRUE)
  \/ \E w \in Workers, qt \in {"document_processing", "maintenance"} : RetryDequeue(w, qt)
  \/ \E w \in Workers, e \in Errors : WorkerFail(w, e)
  \/ \E p \in Workers : FailWrite(p)
  \/ \E p \in Workers, o \in Outcomes : FailEnqueue(p, o)
  \/ \E m \in 1..Len(msgs) : DelayElapses(m)
  \/ \E m \in 1..Len(msgs) : VisibilityTimeout(m)

SpecRetry == Init /\ [][NextRetry]_vars

\* Jobs that are given up, and the broker left to itself: each worker reports
\* the job it was handed with fail_job(job_id, error, retry=False), the
\* dashboard cancels, nobody completes. The workers keep polling, every call
\* that has started runs to its end, and the broker's timers run out.
WorkerGivesUp(w, error) == Holding(w) /\ FailRead(w, call[w].job_id, error, FALSE)

NextDlq ==
  \/ \E qt \in ConfiguredQueues, pr \in {URGENT - 1, URGENT} :
        Enqueue(qt, RetrySubmission, pr, TRUE)
  \/ \E w \in Workers, qt \in ConfiguredQueues : RetryDequeue(w, qt)
  \/ \E w \in Workers, e \in Errors : WorkerGivesUp(w, e)
  \/ \E p \in Procs : FailWrite(p)
  \/ \E j \in JobIds : CancelJob("api", j)
  \/ \E m \in 1..Len(msgs) : DelayElapses(m)
  \/ \E m \in 1..Len(msgs) : VisibilityTimeout(m)

SpecDlq ==
  /\ Init
  /\ [][NextDlq]_vars
  /\ WF_vars(\E w \in Workers, qt \in ConfiguredQueues : RetryDequeue(w, qt))
  /\ WF_vars(\E w \in Workers, e \in Errors : WorkerGivesUp(w, e))
  /\ WF_vars(\E p \in Procs : FailWrite(p))
  /\ WF_vars(\E m \in 1..Len(msgs) : DelayElapses(m))
  /\ WF_vars(\E m \in 1..Len(msgs) : VisibilityTimeout(m))

\* Workers that report every job they are handed, with complete_job or with
\* fail_job (retry left at its default), and go on polling; every call that
\* has started runs to its end, and the broker's timers run out.
WorkerReports(w) ==
  \/ WorkerComplete(w, "summary")
  \/ \E e \in Errors : WorkerFail(w, e)

\* the workers are quick: the visibility timeout of a message runs out only
\* once the worker that leased it has made its report
TimeoutAfterReport(m) ==
  /\ \A w \in Workers : call[w].pc # "idle" => call[w].job_id # msgs[m].job_id
  /\ VisibilityTimeout(m)

NextLive ==
  \/ \E pr \in {URGENT - 1, URGENT} :
        Enqueue("maintenance", RetrySubmission, pr, TRUE)
  \/ \E w \in Workers : RetryDequeue(w, "maintenance")
  \/ \E w \in Workers : WorkerReports(w)
  \/ \E p \in Workers : CompleteWrite(p)
  \/ \E p \in Workers : FailWrite(p)
  \/ \E p \in Workers, o \in Outcomes : FailEnqueue(p, o)
  \/ \E m \in 1..Len(msgs) : DelayElapses(m)
  \/ \E m \in 1..Len(msgs) : TimeoutAfterReport(m)

SpecLive ==
  /\ Init
  /\ [][NextLive]_vars
  /\ \A w \in Workers :
       /\ WF_vars(RetryDequeue(w, "maintenance"))
       /\ WF_vars(WorkerReports(w))
       /\ WF_vars(CompleteWrite(w))
       /\ WF_vars(FailWrite(w))
       /\ WF_vars(\E o \in Outcomes : FailEnqueue(w, o))
  /\ WF_vars(\E m \in 1..Len(msgs) : DelayElapses(m))
  /\ WF_vars(\E m \in 1..Len(msgs) : TimeoutAfterReport(m))

\* Enqueues against a broker whose delay timers are kept in seconds: a
\* message sent at time t with DelaySeconds d becomes visible when the clock
\* reaches t + d, and the clock does not pass that time before it has.
DueAt(m) == jobs[msgs[m].job_id].created_at + msgs[m].delay

DelayEnqueue(qt, sub, prio) ==
  /\ EnqueueEffect(qt, sub.payload, sub.user_id, prio,
                   Sent(qt, sub.payload, FALSE, TRUE), 0)
  /\ UNCHANGED <<now, call, client, store>>

TimedDelayElapses(m) == now >= DueAt(m) /\ DelayElapses(m)

SecondPasses ==
  /\ now < MaxSeconds
  /\ \A m \in 1..Len(msgs) : msgs[m].state = "delayed" => DueAt(m) > now
  /\ now' = now + 1
  /\ UNCHANGED <<jobs, msgs, nextId, call, origin, client, store>>

NextDelay ==
  \/ \E qt \in ConfiguredQueues, sub \in Submissions, pr \in JobPriority :
        DelayEnqueue(qt, sub, pr)
  \/ \E m \in 1..Len(msgs) : TimedDelayElapses(m)
  \/ SecondPasses

SpecDelay == Init /\ [][NextDelay]_vars

\* Maintenance: jobs are enqueued, worked on, completed or cancelled while
\* days pass, and the dashboard purges old records with any age limit.
PurgeDays == {0, 1}

NextPurge ==
  \/ DelayEnqueue("maintenance", ClockSubmission, URGENT)
  \/ \E w \in Workers : RetryDequeue(w, "maintenance")
  \/ \E w \in Workers : WorkerComplete(w, "summary")
  \/ \E p \in Procs : CompleteWrite(p)
  \/ \E j \in JobIds : CancelJob("api", j)
  \/ \E p \in Procs : FailWrite(p)
  \/ \E m \in 1..Len(msgs) : VisibilityTimeout(m)
  \/ Tick
  \/ \E d \in PurgeDays, last \in JobIds : PurgeScan("api", d, last)
  \/ PurgeDelete("api")

SpecPurge == Init /\ [][NextPurge]_vars

\* ---- workers and the dashboard's worker view ------------------------------
\* minutes pass between the calls: just less than a window, or a whole one
MinutesPass(n) ==
  /\ now + n <= MaxMinutes
  /\ now' = now + n
  /\ UNCHANGED <<jobs, msgs, nextId, call, origin, client, store>>

NextWorkers ==
  \/ DelayEnqueue("document_processing", ClockSubmission, URGENT)
  \/ \E w \in Workers : RetryDequeue(w, "document_processing")
  \/ \E w \in Workers : WorkerComplete(w, "summary")
  \/ \E p \in Procs : CompleteWrite(p)
  \/ \E m \in 1..Len(msgs) : VisibilityTimeout(m)
  \/ \E n \in {ActiveWindow - 1, ActiveWindow} : MinutesPass(n)
  \/ \E last \in JobIds : get_active_workers("api", last)

SpecWorkers == Init /\ [][NextWorkers]_vars

\* ---- dead letters and the dashboard's statistics --------------------------
StatQueues == {"document_processing", "maintenance"}

NextStats ==
  \/ \E qt \in StatQueues : DelayEnqueue(qt, ClockSubmission, URGENT)
  \/ \E w \in Workers, qt \in StatQueues : RetryDequeue(w, qt)
  \/ \E w \in Workers : WorkerComplete(w, "summary")
  \/ \E p \in Procs : CompleteWrite(p)
  \/ \E m \in 1..Len(msgs) : VisibilityTimeout(m)
  \/ \E qt \in QueueType \cup {NONE} : get_queue_statistics("api", qt)

SpecStats == Init /\ [][NextStats]_vars

\* ---- the document pipeline on its own -------------------------------------
NextProcess ==
  \/ \E files \in FileLists, filenames \in FilenameLists, urls \in UrlLists :
       ProcessJob("api", files, filenames, urls)
  \/ \E ok \in BOOLEAN : ProcessFile("api", ok)
  \/ \E ok \in BOOLEAN : ProcessUrl("api", ok)

SpecProcess == Init /\ [][NextProcess]_vars

\* ---- the asynchronous handler around the pipeline -------------------------
NextHandler ==
  \/ \E p \in Workers, n \in EventFiles, downloaded \in BOOLEAN :
       process_job_async(p, n, downloaded)
  \/ \E p \in Workers, ok \in BOOLEAN : ProcessFile(p, ok)
  \/ \E p \in Workers, accepted \in BOOLEAN : UpdateJobStatus(p, accepted)
  \/ \E p \in Workers, accepted \in BOOLEAN : MarkJobFailed(p, accepted)

SpecHandler == Init /\ [][NextHandler]_vars

\* ---- the extraction tiers of one PDF --------------------------------------
NextPdf ==
  \/ \E p \in Workers, word_count \in WordCounts : ExtractText(p, word_count)
  \/ \E p \in Workers, outcome \in OcrOutcomes : OcrAdvanced(p, outcome)
  \/ \E p \in Workers, outcome \in OcrOutcomes : OcrBasic(p, outcome)

SpecPdf == Init /\ [][NextPdf]_vars

\* ---- the embedding of one document's chunks -------------------------------
NextEmbed ==
  \/ \E n \in ChunkCounts : GenerateVectorSidecar("api", n)
  \/ \E answer \in EmbeddingAnswers : InvokeModel("api", answer)

SpecEmbed == Init /\ [][NextEmbed]_vars

\* the same with the event loop running the coroutine on: every invoke_model
\* call returns or raises (the client's timeouts), every sleep ends
SpecEmbedFair ==
  SpecEmbed /\ WF_vars(\E answer \in EmbeddingAnswers : InvokeModel("api", answer))

\* ---- the chunking of one text ---------------------------------------------
NextChunk ==
  \E text \in Texts, chunk_size \in ChunkSizes, overlap \in Overlaps :
    ChunkText("api", text, chunk_size, overlap)

SpecChunk == Init /\ [][NextChunk]_vars

\* ---- workers uploading documents to the bucket ----------------------------
NextUpload ==
  \/ \E p \in Workers, base_name \in BaseNames :
       UploadDocument(p, EventJob(p), base_name)
  \/ \E p \in Workers : ManifestGet(p)
  \/ \E p \in Workers : ManifestPut(p)
  \/ Tick

SpecUpload == Init /\ [][NextUpload]_vars

\* ------------------------------------------------------------------ claims
\* the step in which process p makes the update_item of its fail_job call
FailWrites(p) == call[p].pc = "fail_write" /\ call'[p].pc # "fail_write"

\* the step in which process p makes the nested enqueue_job of its fail_job call
FailEnqueues(p) == call[p].pc = "fail_enqueue" /\ call'[p].pc # "fail_enqueue"

\* the step in which process p makes the update_item of its complete_job call
CompleteWrites(p) == call[p].pc = "complete_write" /\ call'[p].pc # "complete_write"

\* C1: fail(job_id, error, retry=true) on a job read with retry_count <
\* max_retries leaves the job's record with status queued, retry_count one
\* above the value the call read, error_message the given error, and a
\* priority raised by at most one level and never above urgent; the rest of
\* the call (the nested enqueue) does not touch that record.
C1_FailRetryRecord ==
  [][\A p \in Procs :
       LET c == call[p]
           j == c.job_id
       IN /\ (FailWrites(p) /\ WillRetry(c)) =>
               /\ jobs'[j].status = QUEUED
               /\ jobs'[j].retry_count = Get(c.job_data.retry_count, 0) + 1
               /\ jobs'[j].error_message = c.error
               /\ jobs'[j].priority >= jobs[j].priority
               /\ jobs'[j].priority <= Min(URGENT, jobs[j].priority + 1)
          /\ FailEnqueues(p) => jobs'[j] = jobs[j]]_vars

\* a retry has just been written for a job of urgent priority, and for the
\* second time
C1_Witness ==
  \E p \in Procs :
    /\ call[p].pc = "fail_enqueue"
    /\ jobs[call[p].job_id].status = QUEUED
    /\ jobs[call[p].job_id].retry_count = 2
    /\ jobs[call[p].job_id].priority = URGENT
    /\ jobs[call[p].job_id].error_message = "boom"

\* C2 (as claimed): a fail with retry=false, or with the retries exhausted,
\* puts the record in a terminal status and publishes no message, and a
\* record in a terminal status is never set back to queued.
C2_TerminalNeverRequeued ==
  [][/\ \A p \in Procs :
          (FailWrites(p) /\ ~WillRetry(call[p])) =>
             /\ jobs'[call[p].job_id].status \in {FAILED, CANCELLED}
             /\ msgs' = msgs
     /\ \A j \in JobIds :
          jobs[j].status \in {FAILED, CANCELLED} => jobs'[j].status # QUEUED]_vars

\* C3: every Job Record has retry_count <= max_retries.
C3_RetryCountBounded ==
  \A j \in JobIds :
    jobs[j] # NoItem =>
      Get(jobs[j].retry_count, 0) <= Get(jobs[j].max_retries, DefaultMaxRetries)

\* a record has used up its retries
C3_Witness ==
  \E j \in JobIds :
    /\ jobs[j] # NoItem
    /\ jobs[j].retry_count = jobs[j].max_retries
    /\ jobs[j].max_retries = DefaultMaxRetries

\* the leases of every record and message that descend from client enqueue r
RECURSIVE AttemptsUpTo(_, _)
AttemptsUpTo(r, n) ==
  IF n = 0 THEN 0
  ELSE (IF origin[msgs[n].job_id] = r THEN msgs[n].receive_count ELSE 0)
       + AttemptsUpTo(r, n - 1)
Attempts(r) == AttemptsUpTo(r, Len(msgs))

\* C4 (as claimed): when every attempt is reported with fail(retry=true), the
\* work of one client enqueue is leased at most max_retries + 1 times,
\* counting every record and message the engine creates for it.
C4_AttemptsBounded ==
  \A r \in JobIds : origin[r] = r => Attempts(r) <= DefaultMaxRetries + 1

\* C5: enqueue finds a job id no record and no message carries, and creates
\* exactly one record, under that id, with status queued, the given priority,
\* user id and payload, retry_count 0 and max_retries 3; when it returns the
\* id it has published exactly one message, carrying that id, and
\* get_job_status(id) gives that record. (A step that hands out a job id
\* never touches another record or an earlier message.)
C5_EnqueueCreates ==
  [][/\ \A qt \in QueueType, sub \in Submissions, pr \in JobPriority, ok \in BOOLEAN :
          Enqueue(qt, sub, pr, ok) =>
            \A id \in {nextId} :
               LET sent == Sent(qt, sub.payload, FALSE, ok) IN
               /\ jobs[id] = NoItem
               /\ \A m \in 1..Len(msgs) : msgs[m].job_id # id
               /\ jobs'[id].job_id = id
               /\ jobs'[id].status = QUEUED
               /\ jobs'[id].priority = pr
               /\ jobs'[id].user_id = sub.user_id
               /\ jobs'[id].payload = sub.payload
               /\ jobs'[id].retry_count = 0
               /\ jobs'[id].max_retries = 3
               /\ EnqueueReturn(id, sent) = id =>
                    /\ Len(msgs') = Len(msgs) + 1
                    /\ msgs'[Len(msgs')].job_id = id
                    /\ get_job_status(id)' = jobs'[id]
     /\ nextId' # nextId =>
          /\ nextId' = nextId + 1
          /\ \A j \in JobIds \ {nextId} : jobs'[j] = jobs[j]
          /\ Len(msgs') <= Len(msgs) + 1
          /\ SubSeq(msgs', 1, Len(msgs)) = msgs]_vars

\* the spec's scenario: a normal-priority job with a urls payload has just
\* been enqueued, its message is on the queue, and get_job_status returns it
C5_Witness ==
  \E j \in JobIds :
    /\ get_job_status(j) # NoItem
    /\ get_job_status(j).status = QUEUED
    /\ get_job_status(j).priority = 2
    /\ get_job_status(j).payload = "urls"
    /\ get_job_status(j).retry_count = 0
    /\ origin[j] = j
    /\ \E m \in 1..Len(msgs) : msgs[m].job_id = j /\ msgs[m].receive_count = 0

\* C6: when dequeue(queue_type, worker_id) leases a message, that one step
\* leaves the record the message names with status processing, assigned_worker
\* = worker_id and processing_started_at = the time of the lease; the job
\* handed to the worker is that record, and no other record changes.
C6_DequeueLeases ==
  [][\A w \in Workers, qt \in QueueType :
       (WorkerDequeue(w, qt) /\ DequeueOutcome(qt) = "lease") =>
         \E m \in Visible(qt) :
           LET j == msgs[m].job_id IN
           /\ msgs'[m].state = "inflight"
           /\ jobs'[j].status = PROCESSING
           /\ jobs'[j].assigned_worker = w
           /\ jobs'[j].processing_started_at = now
           /\ \A k \in JobIds \ {j} : jobs'[k] = jobs[k]
           /\ Holding(w)' => call'[w].job_id = j
           /\ DequeueReturn(jobs'[j]) \in {jobs'[j], NoItem}
           /\ DequeueReturn(jobs'[j]) # NoItem <=> Holding(w)']_vars

\* worker w2 holds a job it leased after the clock moved, for the second time,
\* while another record exists
C6_Witness ==
  \E j \in JobIds, k \in JobIds :
    /\ j # k
    /\ jobs[k] # NoItem
    /\ Holding("w2") /\ call["w2"].job_id = j /\ call["w2"].held.rc = 2
    /\ jobs[j].status = PROCESSING
    /\ jobs[j].assigned_worker = "w2"
    /\ jobs[j].processing_started_at = now
    /\ jobs[j].created_at < now

\* C7 (as claimed): complete(job_id, result) by the worker that leased the job
\* sets the record to completed, stamps processing_completed_at, stores the
\* result, and deletes the leased message.
C7_CompleteAcknowledges ==
  [][\A w \in Workers :
       (CompleteWrites(w) /\ call[w].held # NoHandle) =>
          /\ jobs'[call[w].job_id].status = COMPLETED
          /\ jobs'[call[w].job_id].processing_completed_at = now
          /\ call[w].result # NONE => jobs'[call[w].job_id].result = call[w].result
          /\ msgs'[call[w].held.msg].state = "deleted"]_vars

\* C8 (as claimed): dequeue on a queue type that has no visible message
\* returns None, does not raise, hands the worker no job, and changes no
\* record and no message.
C8_EmptyDequeue ==
  [][\A qt \in ConfiguredQueues :
       Visible(qt) = {} =>
         /\ DequeueOutcome(qt) = "none"
         /\ \A w \in Workers :
              WorkerDequeue(w, qt) =>
                /\ jobs' = jobs
                /\ msgs' = msgs
                /\ ~Holding(w)']_vars

\* C9 (as claimed): a status write of complete or fail that finds the record's
\* status changed since the call read it leaves that status alone.
C9_WritesAreConditional ==
  [][\A p \in Procs :
       LET j == call[p].job_id IN
       ((FailWrites(p) \/ CompleteWrites(p))
          /\ jobs[j].status # call[p].job_data.status) =>
         jobs'[j].status = jobs[j].status]_vars

\* C10 (as claimed): the retry_count of a record never decreases.
C10_RetryCountMonotonic ==
  [][\A j \in JobIds :
       (jobs[j] # NoItem /\ jobs'[j] # NoItem) =>
         jobs'[j].retry_count >= jobs[j].retry_count]_vars

\* C11 (as claimed): once a job that a worker holds has been cancelled
\* (fail_job(job_id, reason, retry=False) has set it to failed), a fail_job
\* with retry=True that the worker reports afterwards, and that reads the
\* record as failed, neither sets the record back to queued nor publishes a
\* message.
C11_CancelPreventsRetry ==
  [][\A w \in Workers :
       LET c == call[w]
           j == c.job_id
       IN (c.retry /\ c.job_data.status = FAILED /\ jobs[j].status = FAILED) =>
            /\ FailWrites(w) => jobs'[j].status # QUEUED
            /\ FailEnqueues(w) => msgs' = msgs]_vars

C13_PublishFailureOrphans ==
  [][\A qt \in QueueType, sub \in Submissions, pr \in JobPriority, ok \in BOOLEAN :
       (Enqueue(qt, sub, pr, ok) /\ ~Sent(qt, sub.payload, FALSE, ok)) =>
         \A id \in {nextId} :
           /\ EnqueueReturn(id, FALSE) = 0
           /\ jobs[id] = NoItem
           /\ jobs'[id] = NewJob(id, qt, pr, sub.user_id, sub.payload, now)
           /\ jobs'[id].status = QUEUED
           /\ get_job_status(id)' = jobs'[id]
           /\ msgs' = msgs
           /\ \A m \in 1..Len(msgs') : msgs'[m].job_id # id]_vars

\* a record a client enqueued is queued and no message names it
C13_Witness ==
  \E j \in JobIds :
    /\ origin[j] = j
    /\ jobs[j].status = QUEUED
    /\ jobs[j].retry_count = 0
    /\ get_job_status(j) = jobs[j]
    /\ \A m \in 1..Len(msgs) : msgs[m].job_id # j

\* C14 (as claimed, the "only if" half): in every reachable state, a record
\* whose processing_started_at is set has status processing, completed or
\* failed.
C14_StartedOnlyIfProcessed ==
  \A j \in JobIds :
    (jobs[j] # NoItem /\ jobs[j].processing_started_at \notin {None, Absent}) =>
      jobs[j].status \in {PROCESSING, COMPLETED, FAILED}

\* C15 (as claimed): in every reachable state, assigned_worker of a record is
\* unset whenever the record's status is queued, completed or failed.
C15_WorkerOnlyWhileProcessing ==
  \A j \in JobIds :
    (jobs[j] # NoItem /\ jobs[j].status \in {QUEUED, COMPLETED, FAILED}) =>
      jobs[j].assigned_worker \in {NONE, ABSENT}

\* C16: the delay enqueue gives a message is delay_seconds of its priority,
\* which is strictly smaller for a higher priority, 0 for urgent and never
\* negative; and of two messages enqueued at the same instant, the one of
\* lower priority is not deliverable before the one of higher priority is.
C16_DelayDecreasesWithPriority ==
  /\ \A p \in JobPriority, q \in JobPriority :
       p < q => delay_seconds(p) > delay_seconds(q)
  /\ delay_seconds(URGENT) = 0
  /\ \A p \in JobPriority : delay_seconds(p) >= 0
  /\ \A m \in 1..Len(msgs) :
       /\ msgs[m].delay = delay_seconds(msgs[m].priority)
       /\ msgs[m].state = "delayed" => now <= DueAt(m)
  /\ \A m \in 1..Len(msgs), n \in 1..Len(msgs) :
       (/\ jobs[msgs[m].job_id].created_at = jobs[msgs[n].job_id].created_at
        /\ msgs[m].priority > msgs[n].priority
        /\ msgs[n].state # "delayed") => msgs[m].state # "delayed"

\* two messages enqueued at the same instant: the high-priority one is
\* visible, the normal-priority one still delayed
C16_Witness ==
  \E m \in 1..Len(msgs), n \in 1..Len(msgs) :
    /\ jobs[msgs[m].job_id].created_at = jobs[msgs[n].job_id].created_at
    /\ msgs[m].priority = 3 /\ msgs[n].priority = 2
    /\ msgs[m].state = "visible" /\ msgs[n].state = "delayed"
    /\ now = DueAt(m)

\* the step in which process p makes a delete_item of its purge
PurgeDeletes(p) == call[p].pc = "purge_delete" /\ call'[p] # call[p]

\* C17 (as claimed): purge_completed_jobs(d) sets out to delete exactly the
\* records of the table whose status is completed or failed and whose
\* processing_completed_at is earlier than now minus d days, and none of its
\* deletes touches a record that is queued or processing.
C17_PurgeDeletesExactly ==
  [][\A p \in Procs :
       /\ \A d \in PurgeDays, last \in JobIds :
            PurgeScan(p, d, last) =>
              call'[p].items =
                {j \in JobIds : jobs[j] # NoItem /\ PurgeFilter(jobs[j], now - d)}
       /\ PurgeDeletes(p) =>
            \A k \in JobIds :
              (jobs[k] # NoItem /\ jobs[k].status \in {QUEUED, PROCESSING}) =>
                jobs'[k] = jobs[k]]_vars

\* the records that show a worker alive: processing, assigned to it, started
\* less than the window ago
ActiveRecords(w) ==
  {j \in JobIds : /\ jobs[j] # NoItem
                  /\ jobs[j].status = PROCESSING
                  /\ jobs[j].assigned_worker = w
                  /\ jobs[j].processing_started_at \notin {None, Absent}
                  /\ now - jobs[j].processing_started_at < ActiveWindow}

\* C18 (as claimed): get_active_workers lists a worker exactly when some
\* record is processing, assigned to that worker and started within the last 10
\* minutes; active_worker_count is the number of such workers and a worker's
\* job_count is the number of such records of that worker.
C18_ActiveWorkersListed ==
  [][\A last \in JobIds :
       get_active_workers("api", last) =>
         /\ DOMAIN call'["api"].workers = {w \in Workers : ActiveRecords(w) # {}}
         /\ call'["api"].active_worker_count =
              Cardinality({w \in Workers : ActiveRecords(w) # {}})
         /\ \A w \in DOMAIN call'["api"].workers :
              call'["api"].workers[w] = Cardinality(ActiveRecords(w))]_vars

\* C19 (as claimed): the statistics of a queue type that has a queue report
\* queue_health 'healthy' exactly when its dead-letter queue holds no message
\* and 'warning' otherwise, and overall_health 'healthy' exactly when the
\* dead-letter counts of the reported queues sum to zero; and whatever the
\* dead-letter count, an enqueue is accepted and a visible message is leased.
C19_HealthFollowsDeadLetters ==
  /\ [][\A qt \in ConfiguredQueues :
          get_queue_statistics("api", qt) =>
            /\ ~call'["api"].stats.error
            /\ \E e \in call'["api"].stats.queues :
                 /\ call'["api"].stats.queues = {e}
                 /\ e.queue_type = qt
                 /\ e.queue_health \in {"healthy", "warning"}
                 /\ e.queue_health = "healthy" <=> DlqMessages(qt) = 0
            /\ call'["api"].stats.overall_health \in {"healthy", "warning"}
            /\ call'["api"].stats.overall_health = "healthy" <=>
                 DlqMessages(qt) = 0]_vars
  /\ [](\A qt \in StatQueues :
          /\ nextId <= MaxJobs => ENABLED DelayEnqueue(qt, ClockSubmission, URGENT)
          /\ \A w \in Workers :
               (call[w].pc = "idle" /\ Visible(qt) # {} /\ client = "lenient") =>
                 ENABLED (RetryDequeue(w, qt) /\ msgs' # msgs))

\* the statistics report a warning for a queue whose dead-letter queue holds a
\* message, while that queue takes a new job and hands a visible one to a worker
C19_Witness ==
  \E qt \in StatQueues, w \in Workers :
    /\ DlqMessages(qt) > 0
    /\ \E e \in call["api"].stats.queues :
         e.queue_type = qt /\ e.queue_health = "warning" /\ e.messages = DlqMessages(qt)
    /\ call["api"].stats.overall_health = "warning"
    /\ call[w].pc = "idle" /\ Visible(qt) # {}
    /\ ENABLED (RetryDequeue(w, qt) /\ msgs' # msgs)

\* C20 (as claimed): whatever lists process_job is given, of equal lengths or
\* not, the results it returns have total_documents = successful_documents +
\* failed_documents_count, with one failed_documents entry per failure.
C20_ProcessJobAccounts ==
  \A p \in Procs :
    call[p].run.pc = "returned" =>
      /\ call[p].run.total_documents =
           call[p].run.successful_documents + call[p].run.failed_documents_count
      /\ Len(call[p].run.failed_documents) = call[p].run.failed_documents_count

\* C21: a job's record is marked failed only after the handler's try block
\* raised; once process_job has returned its results the handler writes
\* completed, whatever the number of inputs that failed, and a write that the
\* table takes leaves the record completed.
C21_FailedOnlyWhenRaised ==
  /\ [](\A p \in Procs :
          /\ call[p].handler.status = "failed" => call[p].handler.raised
          /\ call[p].pc = "update_job_status" =>
               call[p].run.pc = "returned" /\ ~call[p].handler.raised)
  /\ [][\A p \in Procs :
          (call[p].pc = "update_job_status" /\ call'[p] # call[p]) =>
            \/ call'[p].handler.status = "completed" /\ call'[p].pc = "idle"
            \/ call'[p].handler.raised /\ call'[p].pc = "mark_job_failed"]_vars

\* every input of the job failed, process_job returned, and the record is
\* completed
C21_Witness ==
  \E p \in Procs :
    /\ call[p].pc = "idle"
    /\ call[p].handler.status = "completed"
    /\ call[p].run.pc = "returned"
    /\ call[p].run.total_documents = MaxInputs
    /\ call[p].run.failed_documents_count = call[p].run.total_documents

\* C22 (as claimed): when the text layer of a PDF has fewer words than the
\* floor, the first OCR call made is the plain, confidence-filtered one
\* (detect_document_text), and when its text is kept processing_method names
\* it; when the text layer has at least the floor, no OCR call is made and
\* processing_method names the direct extraction.
C22_PlainOcrIsNextTier ==
  \A p \in Procs :
    LET r == call[p].pdf IN
    /\ (r.direct_words < OcrWordFloor /\ r.ocr_calls # <<>>) =>
         r.ocr_calls[1] = "detect_document_text"
    /\ (r.pc = "done" /\ r.direct_words >= OcrWordFloor) =>
         r.ocr_calls = <<>> /\ r.processing_method = "PyPDF2"
    /\ (r.pc = "done" /\ r.processing_method = "PyPDF2 + Textract Basic OCR") =>
         /\ r.ocr_calls[Len(r.ocr_calls)] = "detect_document_text"
         /\ r.words > r.direct_words

\* what the sidecar entry of a chunk records as its retry count
RecordedRetries(entry) ==
  IF "retry_count" \in DOMAIN entry.metadata
    THEN entry.metadata["retry_count"] ELSE Absent

\* C23 (as claimed): a chunk whose embedding failed on the first two service
\* calls and came with the third has a vector of 1536 after exactly three
\* calls, and its entry records a retry count of 2.
C23_TwoRetriesRecorded ==
  \A p \in Procs :
    \A n \in 1..Len(call[p].sidecar.embeddings) :
      LET entry == call[p].sidecar.embeddings[n]
          answers == call[p].sidecar.answers[entry.chunk_index + 1]
      IN Len(answers) = 3 =>
           /\ answers[3] = EmbeddingDimensions
           /\ entry.embedding = EmbeddingDimensions
           /\ RecordedRetries(entry) = 2

\* C24 (as claimed): a vector of another length than 1536 ends the embedding
\* of its chunk at once: one service call, no wait.
C24_MismatchNotRetried ==
  \A p \in Procs :
    \A k \in 1..Len(call[p].sidecar.answers) :
      LET answers == call[p].sidecar.answers[k] IN
      (answers # <<>> /\ answers[1] = OtherDimensions) =>
        Len(answers) = 1 /\ call[p].sidecar.sleeps[k] = <<>>

\* C25: every chunk of a document is put to the embedding service, whatever
\* became of the chunks before it; _generate_vector_sidecar returns a
\* sidecar exactly when one chunk at least was embedded; and the sidecar has
\* successful_chunks + failed_chunks = total_chunks, successful_chunks >= 1.
C25_SidecarCounts ==
  \A p \in Procs :
    LET r == call[p].sidecar IN
    r.pc = "done" =>
      /\ \A k \in 1..r.total_chunks : r.answers[k] # <<>>
      /\ r.raised <=> r.embeddings = <<>>
      /\ ~r.raised =>
           /\ r.successful_chunks + r.failed_chunks = r.total_chunks
           /\ r.successful_chunks = Len(r.embeddings)
           /\ r.successful_chunks >= 1

\* the first chunk failed for good, the second was embedded, and the sidecar
\* came back
C25_Witness ==
  \E p \in Procs :
    LET r == call[p].sidecar IN
    /\ r.pc = "done" /\ ~r.raised
    /\ r.total_chunks = 2 /\ r.failed_chunks = 1
    /\ Len(r.answers[1]) = EmbeddingMaxRetries
    /\ r.embeddings[1].chunk_index = 1

\* the chunk is one sentence of the text
IsSentence(text, chunk) ==
  \E k \in 1..Len(text) : \E j \in 1..Len(text[k]) :
    chunk = SentenceWords(text, k, j)

\* C26 (as claimed): every chunk returned has at most chunk_size words, unless
\* it is a single sentence that alone has more.
C26_ChunkWithinSize ==
  \A p \in Procs :
    LET r == call[p].chunking IN
    \A n \in 1..Len(r.chunks) :
      \/ Len(r.chunks[n]) <= r.chunk_size
      \/ IsSentence(r.text, r.chunks[n])

\* C27 (as claimed): each returned chunk after the first begins with the last
\* `overlap` words of the chunk returned before it, whether the boundary
\* between them was a paragraph's or a sentence's.
C27_ConsecutiveChunksOverlap ==
  \A p \in Procs :
    LET r == call[p].chunking IN
    \A n \in 1..(Len(r.chunks) - 1) :
      LET overlap_words == OverlapWords(r.chunks[n], r.overlap) IN
      /\ Len(r.chunks[n + 1]) >= Len(overlap_words)
      /\ SubSeq(r.chunks[n + 1], 1, Len(overlap_words)) = overlap_words

\* the chunks in order, each without the overlap words it was started with
RECURSIVE Rejoined(_, _, _)
Rejoined(chunks, seeds, n) ==
  IF n > Len(chunks) THEN <<>>
  ELSE SubSeq(chunks[n], seeds[n] + 1, Len(chunks[n])) \o
       Rejoined(chunks, seeds, n + 1)

\* C28 (as claimed): the returned chunks, each without its leading overlap
\* words, give back the words of the text in order, none lost, none twice.
C28_ChunksRoundTrip ==
  \A p \in Procs :
    LET r == call[p].chunking IN
    r.chunks # <<>> =>
      Rejoined(r.chunks, r.seeds, 1) =
        WordRun(1, SumSeq([k \in 1..Len(r.text) |-> SumSeq(r.text[k])]))

\* C29 (as claimed): manifest.json only grows: no update removes or replaces
\* an entry that was there, each update adds one entry, also when two workers
\* update it at the same time, and document_count is the number of entries.
C29_ManifestAppendOnly ==
  [][/\ store'.manifest.document_count = Len(store'.manifest.documents)
     /\ Len(store'.manifest.documents) >= Len(store.manifest.documents)
     /\ \A n \in 1..Len(store.manifest.documents) :
          store'.manifest.documents[n] = store.manifest.documents[n]
     /\ \A p \in Procs :
          (call[p].pc = "manifest_put" /\ call'[p].pc = "idle") =>
            Len(store'.manifest.documents) = Len(store.manifest.documents) + 1]_vars

\* C30 (as claimed): every uploaded document has its own two objects in the
\* bucket: no put_object of a document replaces the object of another one,
\* also for documents of the same job uploaded within the same second.
C30_ArtifactKeysDistinct ==
  /\ \A o1, o2 \in store.objects : o1.key = o2.key => o1 = o2
  /\ \A d \in 1..store.uuids :
       Cardinality({o \in store.objects : o.document_id = d}) = 2

\* C31 (as claimed): the retry branch of fail_job publishes a message that
\* carries the failed job's own job_id and leaves the set of Job Records as
\* it was: no record is created by the re-enqueue.
Records == {j \in JobIds : jobs[j] # NoItem}

C31_RetryRepublishesOwnJob ==
  [][\A p \in Procs :
       (call[p].pc = "fail_enqueue" /\ call'[p].pc = "idle") =>
          /\ Records' = Records
          /\ Len(msgs') > Len(msgs) =>
               msgs'[Len(msgs')].job_id = call[p].job_id]_vars


\* C32 (as claimed): the extraction tiers run in increasing order only: the
\* text layer, then the plain OCR (detect_document_text), then the
\* structure-aware OCR (analyze_document); an OCR tier runs only when the
\* text layer did not exceed the floor, the structure-aware one only after
\* the plain one; and processing_method names the tier whose text was kept,
\* a later tier's text being kept only when it has strictly more words.
MethodNamesKeptTier(r) ==
  /\ r.processing_method = "PyPDF2" => r.words = r.direct_words
  /\ r.processing_method = "PyPDF2 + Textract Basic OCR" =>
       /\ r.ocr_calls # <<>>
       /\ r.ocr_calls[Len(r.ocr_calls)] = "detect_document_text"
       /\ r.words > r.direct_words
  /\ r.processing_method = "PyPDF2 + Textract Advanced OCR" =>
       /\ r.ocr_calls # <<>>
       /\ r.ocr_calls[Len(r.ocr_calls)] = "analyze_document"
       /\ r.words > r.direct_words

C32_TiersEscalateInOrder ==
  \A p \in Procs :
    LET r == call[p].pdf
        calls == r.ocr_calls
    IN
    /\ calls # <<>> => r.direct_words <= OcrWordFloor
    /\ \A i \in 1..Len(calls) :
         calls[i] = "analyze_document" =>
           \E k \in 1..(i - 1) : calls[k] = "detect_document_text"
    /\ \A i \in 1..Len(calls) :
         calls[i] = "detect_document_text" =>
           \A k \in 1..(i - 1) : calls[k] # "analyze_document"
    /\ r.pc = "done" => MethodNamesKeptTier(r)


\* C33: _get_titan_embedding calls invoke_model at most 3 times for one
\* chunk and never again after a vector of 1536; it sleeps 2 ** k seconds
\* after the failed attempt k = 0, 1 and not after the last attempt; and it
\* always ends, with the vector or with the error raised after the third
\* failure.
EmbedCallsBounded(c, k) ==
  LET answers == c.answers[k]
      sleeps == c.sleeps[k]
  IN
  /\ Len(answers) <= EmbeddingMaxRetries
  /\ \A n \in 1..(Len(answers) - 1) : answers[n] # EmbeddingDimensions
  /\ Len(sleeps) =
       Cardinality({n \in 1..Len(answers) :
                      answers[n] # EmbeddingDimensions /\ n < EmbeddingMaxRetries})
  /\ \A n \in 1..Len(sleeps) : sleeps[n] = 2 ^ (n - 1)
  /\ k <= c.i =>
       /\ answers # <<>>
       /\ \/ answers[Len(answers)] = EmbeddingDimensions
          \/ Len(answers) = EmbeddingMaxRetries

C33_EmbedBoundedBackoff ==
  /\ [](\A k \in 1..call["api"].sidecar.total_chunks :
          EmbedCallsBounded(call["api"].sidecar, k))
  /\ \A n \in 0..(MaxChunks - 1) :
       (call["api"].sidecar.pc = "embed" /\ call["api"].sidecar.i = n)
         ~> (call["api"].sidecar.pc = "done" \/ call["api"].sidecar.i > n)

C33_Witness ==
  LET c == call["api"].sidecar IN
  /\ c.pc = "done"
  /\ c.total_chunks = 2
  /\ c.answers[1] = <<Raised, Raised, Raised>>
  /\ c.sleeps[1] = <<1, 2>>
  /\ c.answers[2] = <<Raised, EmbeddingDimensions>>
  /\ c.sleeps[2] = <<1>>


\* C34 (as claimed): a record whose status is completed or failed keeps its
\* status and its assigned_worker through every later dequeue, also the
\* dequeue of a message for that job that was delivered again or never
\* acknowledged.
LeaseStep ==
  \E m \in 1..Len(msgs) : msgs[m].state # "inflight" /\ msgs'[m].state = "inflight"

C34_TerminalAbsorbsDelivery ==
  [][LeaseStep =>
       \A j \in JobIds :
         jobs[j].status \in {COMPLETED, FAILED} =>
           /\ jobs'[j].status = jobs[j].status
           /\ jobs'[j].assigned_worker = jobs[j].assigned_worker]_vars


\* C35 (as claimed): with workers that keep polling and report every job
\* they are handed, and a client whose receive requests go through, every
\* record whose enqueue published a message is in the end completed or
\* failed; none stays queued or processing for good, the records a retry put
\* back to queued included.
Published(j) ==
  /\ jobs[j] # NoItem
  /\ \E m \in 1..Len(msgs) : msgs[m].job_id = j

C36_RecordsAreEnqueued ==
  \A j \in JobIds :
    jobs[j] # NoItem =>
      /\ jobs[j].queue_type # ABSENT
      /\ jobs[j].priority # Absent
      /\ jobs[j].user_id # ABSENT
      /\ jobs[j].created_at # Absent


\* C37 (as claimed): get_queue_statistics called without a queue type answers
\* with the statistics of every member of QueueType, and with overall_health
\* 'healthy' whenever no dead-letter queue holds a message.
C37_StatisticsCoverEveryQueueType ==
  [][get_queue_statistics("api", NONE) =>
       /\ {e.queue_type : e \in call'["api"].stats.queues} = QueueType
       /\ (\A qt \in ConfiguredQueues : DlqMessages(qt) = 0) =>
            call'["api"].stats.overall_health = "healthy"]_vars


\* C38: no step of a fail_job call changes the priority, payload, user_id,
\* queue_type, created_at, max_retries, processing_started_at or
\* assigned_worker of the record of the job that failed, and the write of a
\* complete_job call changes neither retry_count nor priority nor
\* error_message of the record it completes.
FailFrame(item) ==
  <<item.priority, item.payload, item.user_id, item.queue_type, item.created_at,
    item.max_retries, item.processing_started_at, item.assigned_worker>>

CompleteFrame(item) == <<item.retry_count, item.priority, item.error_message>>

C38_FailAndCompleteFrames ==
  [][\A p \in Procs :
       /\ (FailWrites(p) \/ FailEnqueues(p)) =>
            FailFrame(jobs'[call[p].job_id]) = FailFrame(jobs[call[p].job_id])
       /\ CompleteWrites(p) =>
            CompleteFrame(jobs'[call[p].job_id]) =
              CompleteFrame(jobs[call[p].job_id])]_vars

\* a leased job was reported failed for good (no retry left to take, or
\* cancelled while a worker had it) and still names its worker and its start
C38_Witness ==
  \E j \in JobIds :
    /\ jobs[j].status = FAILED
    /\ jobs[j].error_message # NONE
    /\ jobs[j].assigned_worker \in Workers
    /\ jobs[j].processing_started_at # None
    /\ jobs[j].priority \in JobPriority


\* C39: a complete_job or fail_job call for a job id that has no record ends
\* at its get_item (the "not found" exception is caught inside the call, which
\* returns False): it makes no update_item, so no record appears, and no
\* send_message or delete_message, so the messages stay as they are; and
\* get_job_status of that id is None.
C39_MissingJobIsRefused ==
  [][\A p \in Workers, j \in JobIds :
       (/\ jobs[j] = NoItem
        /\ \/ CompleteRead(p, j, "summary", NoHandle)
           \/ \E e \in Errors, r \in BOOLEAN : FailRead(p, j, e, r)) =>
          /\ call'[p] = IdleCall
          /\ jobs' = jobs
          /\ msgs' = msgs
          /\ get_job_status(j) = NoItem]_vars

\* a worker that holds one job can call complete_job and fail_job for an id
\* that has no record, and the call is over at once
C39_Witness ==
  \E p \in Workers, j \in JobIds :
    /\ jobs[j] = NoItem
    /\ Holding(p) /\ call[p].job_id # j
    /\ ENABLED (CompleteRead(p, j, "summary", NoHandle) /\ call'[p] = IdleCall)
    /\ ENABLED (FailRead(p, j, "boom", TRUE) /\ call'[p] = IdleCall)

====
